---- MODULE Spec2Model ----
(***************************************************************************)
(* Model of the agent-progress store (thesammykins/context-mcp):           *)
(* ProgressStore (src/src/storage/store.ts), the get_context handler       *)
(* (src/src/tools/index.ts), the search_logs handler                       *)
(* (src/src/tools/search-logs.ts) and Summariser.summarise                 *)
(* (src/src/summariser/summariser.ts).                                     *)
(*                                                                         *)
(* Text values (titles, contents, tags, summaries, timestamps, SQL         *)
(* patterns) are sequences of one-character strings, so that LIKE, LOWER,  *)
(* JSON.stringify / JSON.parse, substring and string comparison are        *)
(* computed the way the code computes them.  Entry ids and project ids are *)
(* TLA+ strings (Len gives their length).                                  *)
(***************************************************************************)
EXTENDS Integers, Sequences, FiniteSets, TLC

(***************************************************************************)
(* Bounds of the model.                                                    *)
(***************************************************************************)
\* most rows the log_entries table holds
MaxEntries == 2
\* most summarise invocations in one run
MaxCalls == 2
\* most search_logs calls in one run
MaxSearches == 1

(***************************************************************************)
(* Program constants.                                                      *)
(***************************************************************************)
ID_LENGTH == 12
DEFAULT_LIMIT == 20
MAX_LIMIT == 100
MIN_LIMIT == 1
FALLBACK_MAX_LENGTH == 500
PROJECT_ID_MAX == 100
TITLE_MAX == 100
CONTENT_MAX == 10000
TAGS_MAX == 10
TAG_MAX == 50
AGENT_ID_MAX == 100

(***************************************************************************)
(* Text helpers.                                                           *)
(***************************************************************************)
\* SQL NULL / JavaScript null or undefined, as a text value no string equals
Null == <<"null">>
\* an omitted tags array
NoTags == <<Null>>
\* an omitted limit
NoLimit == -1

\* byte value of a character (BINARY collation, JavaScript string order)
Code(c) ==
  CASE c = "%" -> 37 [] c = "0" -> 48 [] c = "1" -> 49 [] c = "2" -> 50
    [] c = "3" -> 51 [] c = "A" -> 65 [] c = "B" -> 66 [] c = "C" -> 67
    [] c = "_" -> 95 [] c = "a" -> 97 [] c = "b" -> 98 [] c = "c" -> 99
    [] c = "x" -> 120 [] c = "y" -> 121
    [] OTHER -> 0

\* SQL LOWER() on one ASCII character
LowerChar(c) ==
  CASE c = "A" -> "a" [] c = "B" -> "b" [] c = "C" -> "c" [] OTHER -> c

\* SQL LOWER(text)
Lower(s) == [i \in 1..Len(s) |-> LowerChar(s[i])]

\* s <= t as strings (SQLite BINARY collation on created_at)
RECURSIVE StrLeq(_, _)
StrLeq(s, t) ==
  IF s = <<>> THEN TRUE
  ELSE IF t = <<>> THEN FALSE
  ELSE IF Code(Head(s)) < Code(Head(t)) THEN TRUE
  ELSE IF Code(Head(s)) > Code(Head(t)) THEN FALSE
  ELSE StrLeq(Tail(s), Tail(t))

\* text LIKE pattern in SQLite: % is any run, _ is any one character, other
\* characters compare case-insensitively (ASCII)
RECURSIVE Like(_, _)
Like(text, pattern) ==
  IF pattern = <<>> THEN text = <<>>
  ELSE IF Head(pattern) = "%"
    THEN \E k \in 0..Len(text) : Like(SubSeq(text, k + 1, Len(text)), Tail(pattern))
  ELSE /\ text # <<>>
       /\ \/ Head(pattern) = "_"
          \/ LowerChar(Head(pattern)) = LowerChar(Head(text))
       /\ Like(Tail(text), Tail(pattern))

\* needle occurs in hay as a contiguous substring
Contains(hay, needle) ==
  \E k \in 0..(Len(hay) - Len(needle)) :
    SubSeq(hay, k + 1, k + Len(needle)) = needle

\* JSON.stringify of one string
JsonString(s) ==
  LET esc[i \in 0..Len(s)] ==
        IF i = 0 THEN <<>>
        ELSE esc[i - 1] \o
             (IF s[i] \in {"\"", "\\"} THEN <<"\\", s[i]>> ELSE <<s[i]>>)
  IN <<"\"">> \o esc[Len(s)] \o <<"\"">>

\* JSON.stringify(tags) for an array of strings
JsonStringify(tags) ==
  LET body[i \in 0..Len(tags)] ==
        IF i = 0 THEN <<>>
        ELSE body[i - 1] \o (IF i > 1 THEN <<",">> ELSE <<>>) \o JsonString(tags[i])
  IN <<"[">> \o body[Len(tags)] \o <<"]">>

\* JSON.parse of the text of an array of strings: scan from position i, cur
\* is the string being read (Null outside a string), acc the strings read
RECURSIVE JsonScan(_, _, _, _)
JsonScan(t, i, cur, acc) ==
  IF i > Len(t) THEN acc
  ELSE IF cur = Null
    THEN IF t[i] = "\"" THEN JsonScan(t, i + 1, <<>>, acc)
         ELSE JsonScan(t, i + 1, Null, acc)
  ELSE IF t[i] = "\\" THEN JsonScan(t, i + 2, Append(cur, t[i + 1]), acc)
  ELSE IF t[i] = "\"" THEN JsonScan(t, i + 1, Null, Append(acc, cur))
  ELSE JsonScan(t, i + 1, Append(cur, t[i]), acc)

JsonParse(t) == JsonScan(t, 1, Null, <<>>)

\* the elements of a sequence
Range(s) == {s[i] : i \in 1..Len(s)}

Min(a, b) == IF a < b THEN a ELSE b

(***************************************************************************)
(* Input pools.                                                            *)
(***************************************************************************)
ProjectIds == {"p1", "p2"}

\* caller-supplied entry ids: one of the required length, one too short, and
\* the empty string (no id)
SuppliedIds == {"entry0000001", "short", ""}

\* ids nanoid(12) can return
NanoIds == {"nanoid00000" \o ToString(n) : n \in 1..MaxEntries}

EntryIds == {i \in SuppliedIds : Len(i) = ID_LENGTH} \cup NanoIds

\* timestamps, as text
T1 == <<"1">>
T2 == <<"2">>
Times == {T1, T2}

TagA == <<"a">>
TagB == <<"b">>

TitleAb == <<"A", "b">>
TitleC == <<"c">>

ShortContent == <<"x", "y">>
LongContent == [i \in 1..(FALLBACK_MAX_LENGTH + 1) |-> "x"]

Agent1 == <<"a", "1">>

\* what a caller passes to createEntry besides id and projectId
InputBA == [title |-> TitleAb, content |-> ShortContent, createdAt |-> T2,
            tags |-> <<TagB, TagA>>, agentId |-> Null]
InputAA == [title |-> TitleC, content |-> LongContent, createdAt |-> T1,
            tags |-> <<TagA, TagA>>, agentId |-> Agent1]
InputNone == [title |-> TitleAb, content |-> ShortContent, createdAt |-> T1,
              tags |-> <<>>, agentId |-> Null]

EntryInputs == {InputBA, InputAA, InputNone}

\* the createEntry calls made: <<input, projectId>>
Creations ==
  {<<InputBA, "p1">>, <<InputAA, "p1">>, <<InputNone, "p1">>, <<InputBA, "p2">>}

\* summaries the LLM can answer with (non-empty texts)
Genuine == {<<"S", "1">>, <<"S", "2">>}

(***************************************************************************)
(* State.                                                                  *)
(***************************************************************************)
VARIABLES
  tables,        \* sqlite_master: the names of the tables of the database
  projects,      \* table projects: project_id -> [name, created_at]
  log_entries,   \* table log_entries: id -> row
  entry_tags,    \* table entry_tags: set of <<entry_id, tag>>
  pending,       \* get_context calls awaiting summariser.summarise
  calls,         \* per entry id, summarise invocations so far and how many
                 \* of them returned a genuine result
  searches,      \* search_logs calls made so far
  last           \* the latest operation and what it returned

vars == <<tables, projects, log_entries, entry_tags, pending, calls, searches, last>>

(***************************************************************************)
(* ProgressStore.                                                          *)
(***************************************************************************)
\* INSERT OR REPLACE in place of INSERT OR IGNORE
ensureProjectReplace(projectId, now) ==
  [p \in DOMAIN projects \cup {projectId} |->
     IF p = projectId THEN [name |-> projectId, created_at |-> now]
     ELSE projects[p]]

\* INSERT OR IGNORE INTO projects, created_at being new Date().toISOString()
ensureProject(projectId, now) ==
  IF projectId \in DOMAIN projects THEN projects
  ELSE projects @@ (projectId :> [name |-> projectId, created_at |-> now])

projectExists(projectId) == projectId \in DOMAIN projects

\* any non-empty id of the caller accepted
entryIdForAny(id, nano) == IF id # "" THEN id ELSE nano

\* the id createEntry inserts under: the caller's when it has 12 characters,
\* otherwise nanoid(12)
entryIdFor(id, nano) == IF id # "" /\ Len(id) = ID_LENGTH THEN id ELSE nano

\* nanoid(12): an id not yet in the table
nanoid == CHOOSE n \in NanoIds : n \notin DOMAIN log_entries

\* the INSERT with the foreign key of log_entries.project_id not enforced
insertIntoNoForeignKey(projs, id, projectId) ==
  IF id \in DOMAIN log_entries THEN "UNIQUE constraint failed" ELSE "ok"

\* INSERT INTO log_entries while the projects table holds projs: the primary
\* key is checked as the row is written, the foreign key when the statement
\* ends
insertInto(projs, id, projectId) ==
  IF id \in DOMAIN log_entries THEN "UNIQUE constraint failed"
  ELSE IF projectId \notin DOMAIN projs THEN "FOREIGN KEY constraint failed"
  ELSE "ok"

\* the INSERT INTO log_entries: "ok", or the constraint that rejects it
\* (the primary key is checked before the foreign key; better-sqlite3 opens
\* databases with foreign keys enforced)
insertOutcome(id, projectId) == insertInto(projects, id, projectId)

\* the row createEntry inserts
newRow(projectId, in) ==
  [project_id |-> projectId, title |-> in.title, content |-> in.content,
   summary |-> Null, created_at |-> in.createdAt,
   tags |-> JsonStringify(in.tags), agent_id |-> in.agentId]

\* addTags stopping after the first tag
addTagsFirstOnly(entryId, tags) == entry_tags \cup {<<entryId, tags[1]>>}

\* INSERT OR IGNORE INTO entry_tags, once per tag
addTags(entryId, tags) == entry_tags \cup {<<entryId, tags[i]>> : i \in 1..Len(tags)}

\* initializeSchema: CREATE TABLE IF NOT EXISTS projects, log_entries and
\* entry_tags; the tables the database has afterwards
initializeSchema(t) == t \cup {"projects", "log_entries", "entry_tags"}

\* SELECT id, tags FROM log_entries WHERE tags IS NOT NULL AND tags != '[]'
entriesWithTags ==
  {id \in DOMAIN log_entries :
     log_entries[id].tags # Null /\ log_entries[id].tags # JsonStringify(<<>>)}

\* migrateSchema on a database whose tables are t: when sqlite_master has no
\* entry_tags table, the table is created and filled from the inline tags of
\* every entry that has some; otherwise nothing is done
migrateSchema(t) ==
  IF "entry_tags" \notin t
  THEN entry_tags \cup
         UNION {LET tags == JsonParse(log_entries[id].tags)
                IN IF Len(tags) > 0 THEN addTags(id, tags) ELSE {} :
                  id \in entriesWithTags}
  ELSE entry_tags

\* SELECT tag FROM entry_tags WHERE entry_id = ? ORDER BY tag
tagSet(entryId) == {r[2] : r \in {x \in entry_tags : x[1] = entryId}}

RECURSIVE sortTags(_)
sortTags(S) ==
  IF S = {} THEN <<>>
  ELSE LET m == CHOOSE t \in S : \A u \in S : StrLeq(t, u)
       IN <<m>> \o sortTags(S \ {m})

getTags(entryId) == sortTags(tagSet(entryId))

\* the row looked up by id alone, whatever its project
getEntryById(projectId, id) ==
  IF id \in DOMAIN log_entries
  THEN LET row == log_entries[id]
       IN [found |-> TRUE, id |-> id, projectId |-> row.project_id,
           title |-> row.title, content |-> row.content,
           summary |-> row.summary, createdAt |-> row.created_at,
           tags |-> IF row.tags # Null THEN JsonParse(row.tags) ELSE <<>>,
           agentId |-> row.agent_id]
  ELSE [found |-> FALSE]

\* SELECT * FROM log_entries WHERE project_id = ? AND id = ?
getEntry(projectId, id) ==
  IF id \in DOMAIN log_entries /\ log_entries[id].project_id = projectId
  THEN LET row == log_entries[id]
       IN [found |-> TRUE, id |-> id, projectId |-> row.project_id,
           title |-> row.title, content |-> row.content,
           summary |-> row.summary, createdAt |-> row.created_at,
           tags |-> IF row.tags # Null THEN JsonParse(row.tags) ELSE <<>>,
           agentId |-> row.agent_id]
  ELSE [found |-> FALSE]

\* updateSummary with the WHERE clause left out
updateSummaryAll(id, summary) ==
  [i \in DOMAIN log_entries |-> [log_entries[i] EXCEPT !.summary = summary]]

\* UPDATE log_entries SET summary = ? WHERE id = ?
updateSummary(id, summary) ==
  [i \in DOMAIN log_entries |->
     IF i = id THEN [log_entries[i] EXCEPT !.summary = summary]
     ELSE log_entries[i]]

(***************************************************************************)
(* ProgressStore.searchEntries and searchByTags.                           *)
(***************************************************************************)
\* JavaScript truthiness of an optional string
given(text) == text # Null /\ text # <<>>

\* the WHERE clause with exclusive date bounds
whereClauseExclusive(id, params) ==
  LET row == log_entries[id] IN
  /\ row.project_id = params.projectId
  /\ given(params.query) =>
       Like(Lower(row.title), Lower(<<"%">> \o params.query \o <<"%">>))
  /\ given(params.startDate) =>
       (StrLeq(params.startDate, row.created_at)
          /\ params.startDate # row.created_at)
  /\ given(params.endDate) =>
       (StrLeq(row.created_at, params.endDate) /\ params.endDate # row.created_at)

\* the WHERE clause both the row query and the count query are built with:
\* project, title pattern and date bounds
whereClause(id, params) ==
  LET row == log_entries[id] IN
  /\ row.project_id = params.projectId
  /\ given(params.query) =>
       Like(Lower(row.title), Lower(<<"%">> \o params.query \o <<"%">>))
  /\ given(params.startDate) => StrLeq(params.startDate, row.created_at)
  /\ given(params.endDate) => StrLeq(row.created_at, params.endDate)

\* params.tags && params.tags.length > 0
hasTags(params) == params.tags # NoTags /\ params.tags # <<>>

\* the rows S in any order: the query without its ORDER BY
orderedAny(S) ==
  {s \in [1..Cardinality(S) -> S] :
     \A i, j \in 1..Cardinality(S) : i # j => s[i] # s[j]}

\* the orders ORDER BY created_at DESC can return the rows S in (rows with
\* equal created_at come in any order)
orderedDesc(S) ==
  {s \in [1..Cardinality(S) -> S] :
     /\ \A i, j \in 1..Cardinality(S) : i # j => s[i] # s[j]
     /\ \A i \in 1..(Cardinality(S) - 1) :
          StrLeq(log_entries[s[i + 1]].created_at, log_entries[s[i]].created_at)}

\* the rows carrying every requested tag, whatever their project
tagRowsAnyProject(projectId, tags) ==
  {id \in DOMAIN log_entries :
     \A i \in 1..Len(tags) : <<id, tags[i]>> \in entry_tags}

\* the rows searchByTags selects: in the project, with an entry_tags row for
\* every requested tag
tagRows(projectId, tags) ==
  {id \in DOMAIN log_entries :
     /\ log_entries[id].project_id = projectId
     /\ \A i \in 1..Len(tags) : <<id, tags[i]>> \in entry_tags}

\* the LogEntry searchByTags builds from a row
fullEntry(id) ==
  LET row == log_entries[id] IN
  [id |-> id, projectId |-> row.project_id, title |-> row.title,
   content |-> row.content, summary |-> row.summary,
   createdAt |-> row.created_at, tags |-> getTags(id), agentId |-> row.agent_id]

\* the values searchByTags can return
searchByTags(projectId, tags) ==
  {[i \in 1..Len(s) |-> fullEntry(s[i])] : s \in orderedDesc(tagRows(projectId, tags))}

\* the projection searchEntries maps a row of its own query to
projectedEntry(id) ==
  LET row == log_entries[id] IN
  [id |-> id, projectId |-> row.project_id, title |-> row.title,
   createdAt |-> row.created_at, tags |-> getTags(id)]

\* the rows of the row query, before ORDER BY and LIMIT
queryRows(params) == {id \in DOMAIN log_entries : whereClause(id, params)}

\* LIMIT ? is added when params.limit is truthy
limited(s, params) ==
  IF params.limit # NoLimit /\ params.limit # 0
  THEN SubSeq(s, 1, Min(params.limit, Len(s)))
  ELSE s

\* SELECT COUNT(*): the WHERE clause and, for each requested tag, the inline
\* JSON matched with LIKE '%"tag"%'
countTotal(params) ==
  Cardinality({id \in DOMAIN log_entries :
     /\ whereClause(id, params)
     /\ hasTags(params) =>
          \A i \in 1..Len(params.tags) :
            /\ log_entries[id].tags # Null
            /\ Like(log_entries[id].tags,
                    <<"%", "\"">> \o params.tags[i] \o <<"\"", "%">>)})

\* the values searchEntries can return
searchEntries(params) ==
  IF hasTags(params) /\ tagRows(params.projectId, params.tags) # {}
  THEN {[entries |-> r, total |-> Len(r)] :
          r \in searchByTags(params.projectId, params.tags)}
  ELSE {[entries |-> [i \in 1..Len(limited(s, params)) |-> projectedEntry(s[i])],
         total |-> countTotal(params)] :
          s \in orderedDesc(queryRows(params))}

(***************************************************************************)
(* Summariser.summarise.                                                   *)
(***************************************************************************)
\* a fallback of 300 characters followed by an ellipsis
fallbackWithEllipsis(content) ==
  IF Len(content) > 300
  THEN SubSeq(content, 1, 300) \o <<".", ".", ".">>
  ELSE content

\* the catch branch: the content, cut to FALLBACK_MAX_LENGTH characters
fallback(content) ==
  IF Len(content) > FALLBACK_MAX_LENGTH
  THEN SubSeq(content, 1, FALLBACK_MAX_LENGTH)
  ELSE content

\* what the chat completion request can end in: an answer (possibly the
\* empty text), the timeout, or an error of the API or the network
LlmOutcomes ==
  {[kind |-> "answer", text |-> g] : g \in Genuine \cup {<<>>}}
    \cup {[kind |-> "timeout", text |-> <<>>], [kind |-> "error", text |-> <<>>]}

\* summarise without its catch: a failed request rejects the promise
summariseRejecting(title, content) ==
  {IF o.kind = "answer" /\ o.text # <<>>
   THEN [summary |-> o.text, isFallback |-> FALSE, rejected |-> FALSE]
   ELSE [summary |-> Null, isFallback |-> TRUE, rejected |-> TRUE] :
     o \in LlmOutcomes}

\* what summarise can resolve to: the LLM's non-empty answer, or the fallback
\* when the request fails, times out or answers with an empty text; the
\* promise never rejects
summarise(title, content) ==
  {IF o.kind = "answer" /\ o.text # <<>>
   THEN [summary |-> o.text, isFallback |-> FALSE, rejected |-> FALSE]
   ELSE [summary |-> fallback(content), isFallback |-> TRUE, rejected |-> FALSE] :
     o \in LlmOutcomes}

(***************************************************************************)
(* Initial state: a store opened on a new database file.                   *)
(***************************************************************************)
NoCalls == [total |-> 0, genuine |-> 0]

Init ==
  /\ tables = {"projects", "log_entries", "entry_tags"}
  /\ projects = <<>>
  /\ log_entries = <<>>
  /\ entry_tags = {}
  /\ pending = <<>>
  /\ calls = [id \in EntryIds |-> NoCalls]
  /\ searches = 0
  /\ last = [op |-> "open"]

\* a database file written before the entry_tags table was introduced:
\* project p1 and up to two entries under it, their tags held inline only
LegacyIds == {"entry0000001", "nanoid000001"}

LegacyInit ==
  /\ tables = {"projects", "log_entries"}
  /\ projects = ("p1" :> [name |-> "p1", created_at |-> T1])
  /\ \E S \in SUBSET LegacyIds :
       log_entries \in [S -> {newRow("p1", in) : in \in EntryInputs}]
  /\ entry_tags = {}
  /\ pending = <<>>
  /\ calls = [id \in EntryIds |-> NoCalls]
  /\ searches = 0
  /\ last = [op |-> "none"]

\* new ProgressStore(dbPath): initializeSchema, then migrateSchema on the
\* database as initializeSchema left it
Constructor ==
  /\ tables' = initializeSchema(tables)
  /\ entry_tags' = migrateSchema(initializeSchema(tables))
  /\ last' = [op |-> "open", legacy |-> "entry_tags" \notin tables]
  /\ UNCHANGED <<projects, log_entries, pending, calls, searches>>

\* summarise invocations made so far
TotalCalls ==
  LET sum[S \in SUBSET EntryIds] ==
        IF S = {} THEN 0
        ELSE LET x == CHOOSE y \in S : TRUE IN calls[x].total + sum[S \ {x}]
  IN sum[EntryIds]

(***************************************************************************)
(* Store operations called directly.                                       *)
(***************************************************************************)
EnsureProject(projectId, now) ==
  /\ projects' = ensureProject(projectId, now)
  /\ last' = [op |-> "ensureProject", projectId |-> projectId, now |-> now,
              ok |-> TRUE]
  /\ UNCHANGED <<tables, log_entries, entry_tags, pending, calls, searches>>

\* every failed INSERT reported as a generic storage failure
createErrorGeneric(outcome) == "Failed to create entry: " \o outcome

\* the DatabaseError createEntry throws for a failed INSERT
createError(outcome) ==
  IF outcome = "UNIQUE constraint failed"
  THEN "Entry with ID already exists"
  ELSE "Failed to create entry: " \o outcome

CreateEntry(in, suppliedId, projectId) ==
  /\ (suppliedId = "" \/ Len(suppliedId) # ID_LENGTH)
       => Cardinality(DOMAIN log_entries) < MaxEntries
  /\ LET id == entryIdFor(suppliedId, nanoid)
         outcome == insertOutcome(id, projectId)
     IN IF outcome = "ok"
        THEN /\ Cardinality(DOMAIN log_entries) < MaxEntries
             /\ log_entries' = log_entries @@ (id :> newRow(projectId, in))
             /\ entry_tags' = IF Len(in.tags) > 0 THEN addTags(id, in.tags)
                              ELSE entry_tags
             /\ last' = [op |-> "createEntry", ok |-> TRUE,
                         entry |-> [id |-> id, projectId |-> projectId,
                                    title |-> in.title, content |-> in.content,
                                    summary |-> Null, createdAt |-> in.createdAt,
                                    tags |-> in.tags, agentId |-> in.agentId]]
        ELSE /\ UNCHANGED <<log_entries, entry_tags>>
             /\ last' = [op |-> "createEntry", ok |-> FALSE,
                         error |-> createError(outcome),
                         projectId |-> projectId, entryId |-> suppliedId]
  /\ UNCHANGED <<tables, projects, pending, calls, searches>>

(***************************************************************************)
(* log_progress.                                                           *)
(***************************************************************************)
\* the arguments of a call are a record; a field the caller left out is not
\* in its domain
ValidArgs ==
  {[projectId |-> "p1", title |-> TitleAb, content |-> ShortContent],
   [projectId |-> "p2", title |-> TitleC, content |-> ShortContent,
    tags |-> <<TagA, TagA>>, agentId |-> Agent1]}

Base == [projectId |-> "p1", title |-> TitleAb, content |-> ShortContent]

\* 'x'.repeat(n)
repeat(x, n) == <<>> \o [i \in 1..n |-> x]

LongTitle == repeat("x", TITLE_MAX + 1)
HugeContent == repeat("x", CONTENT_MAX + 1)
ManyTags == repeat(TagA, TAGS_MAX + 1)
LongTag == repeat("t", TAG_MAX + 1)
LongAgent == repeat("g", AGENT_ID_MAX + 1)

InvalidArgs ==
  {[title |-> TitleAb, content |-> ShortContent],
   [Base EXCEPT !.projectId = ""],
   [projectId |-> "p1", content |-> ShortContent],
   [Base EXCEPT !.title = <<>>],
   [Base EXCEPT !.title = LongTitle],
   [projectId |-> "p2", title |-> TitleAb],
   [Base EXCEPT !.content = <<>>],
   [Base EXCEPT !.content = HugeContent],
   Base @@ [tags |-> ManyTags],
   Base @@ [tags |-> <<TagA, LongTag>>],
   Base @@ [agentId |-> LongAgent]}

LogArgs == ValidArgs \cup InvalidArgs

\* the issues z.string().min(1, minMessage).max(max, maxMessage) raises for
\* a required field
requiredString(args, field, minMessage, max, maxMessage) ==
  IF field \notin DOMAIN args THEN <<field \o " Required">>
  ELSE IF Len(args[field]) < 1 THEN <<field \o " " \o minMessage>>
  ELSE IF Len(args[field]) > max THEN <<field \o " " \o maxMessage>>
  ELSE <<>>

\* the issues of tags: z.array(z.string().max(50)).max(10).optional()
tagIssues(args) ==
  IF "tags" \notin DOMAIN args THEN <<>>
  ELSE (IF Len(args.tags) > TAGS_MAX
        THEN <<"tags Array must contain at most 10 element(s)">>
        ELSE <<>>)
       \o LET tooLong == SelectSeq([i \in 1..Len(args.tags) |-> i],
                                   LAMBDA i : Len(args.tags[i]) > TAG_MAX)
          IN [k \in 1..Len(tooLong) |->
                "tags." \o ToString(tooLong[k] - 1)
                  \o " String must contain at most 50 character(s)"]

\* the issues of agentId: z.string().max(100).optional()
agentIssues(args) ==
  IF "agentId" \in DOMAIN args /\ Len(args.agentId) > AGENT_ID_MAX
  THEN <<"agentId String must contain at most 100 character(s)">>
  ELSE <<>>

\* the schema with titles allowed to be as long as contents
LogProgressInputSchemaLongTitle(args) ==
  requiredString(args, "projectId", "projectId is required", PROJECT_ID_MAX,
                 "projectId must be at most 100 characters")
    \o requiredString(args, "title", "title is required", CONTENT_MAX,
                      "title must be at most 100 characters")
    \o requiredString(args, "content", "content is required and cannot be empty",
                      CONTENT_MAX, "content must be at most 10000 characters")
    \o tagIssues(args) \o agentIssues(args)

\* LogProgressInputSchema.parse: the issues of the ZodError, in the order of
\* the schema's fields (none when the arguments are valid)
LogProgressInputSchema(args) ==
  requiredString(args, "projectId", "projectId is required", PROJECT_ID_MAX,
                 "projectId must be at most 100 characters")
    \o requiredString(args, "title", "title is required", TITLE_MAX,
                      "title must be at most 100 characters")
    \o requiredString(args, "content", "content is required and cannot be empty",
                      CONTENT_MAX, "content must be at most 10000 characters")
    \o tagIssues(args) \o agentIssues(args)

\* the handler: validation, ensureProject at clock reading now, then
\* createEntry under a new nanoid(12) with the clock reading createdAt
LogProgress(args, now, createdAt) ==
  LET issues == LogProgressInputSchema(args) IN
  IF issues # <<>>
  THEN /\ last' = [op |-> "log_progress", isError |-> TRUE, text |-> issues[1]]
       /\ UNCHANGED <<tables, projects, log_entries, entry_tags, pending, calls,
                       searches>>
  ELSE LET projectId == args.projectId
           in == [title |-> args.title, content |-> args.content,
                  createdAt |-> createdAt,
                  tags |-> IF "tags" \in DOMAIN args THEN args.tags ELSE <<>>,
                  agentId |-> IF "agentId" \in DOMAIN args /\ args.agentId # <<>>
                              THEN args.agentId ELSE Null]
           ensured == ensureProject(projectId, now)
       IN /\ Cardinality(DOMAIN log_entries) < MaxEntries
          /\ projects' = ensured
          /\ LET id == entryIdFor(nanoid, nanoid)
                 outcome == insertInto(ensured, id, projectId)
             IN IF outcome = "ok"
                THEN /\ log_entries' = log_entries @@ (id :> newRow(projectId, in))
                     /\ entry_tags' = IF Len(in.tags) > 0 THEN addTags(id, in.tags)
                                      ELSE entry_tags
                     /\ last' = [op |-> "log_progress", isError |-> FALSE,
                                 structuredContent |->
                                   [id |-> id, projectId |-> projectId,
                                    title |-> in.title, createdAt |-> createdAt]]
                ELSE /\ UNCHANGED <<log_entries, entry_tags>>
                     /\ last' = [op |-> "log_progress", isError |-> TRUE,
                                 text |-> "Failed to log progress: "
                                            \o createError(outcome)]
          /\ UNCHANGED <<tables, pending, calls, searches>>

(***************************************************************************)
(* get_context.  The handler runs to its await of summariser.summarise     *)
(* (GetContextBegin) and, when the summariser has resolved, from there to  *)
(* its return (GetContextEnd).                                             *)
(***************************************************************************)
\* the stored summary ignored: the summariser is asked on every call
needsSummaryAlways(entry) == TRUE

\* summary === null: the summariser has to be asked
needsSummary(entry) == entry.summary = Null

\* the isFallback test left out: every result is written back
shouldCacheAlways(result) == TRUE

\* if (!result.isFallback): the result is written back
shouldCache(result) == ~result.isFallback

\* the write of the summary raising an error yet taking effect
summaryWrittenDespiteThrow(result, throws) == shouldCache(result)

\* store.updateSummary is called and does not throw: the summary is written
summaryWritten(result, throws) == shouldCache(result) /\ ~throws

\* the success result of the handler
contextResponse(entry, summary, includeFull, invoked, isFallback) ==
  [op |-> "get_context", isError |-> FALSE, found |-> TRUE,
   id |-> entry.id, projectId |-> entry.projectId,
   storedBefore |-> entry.summary, invoked |-> invoked, isFallback |-> isFallback,
   text |-> summary,
   structuredContent |->
     LET response == [id |-> entry.id, projectId |-> entry.projectId,
                      title |-> entry.title, summary |-> summary,
                      createdAt |-> entry.createdAt, tags |-> entry.tags]
     IN IF includeFull THEN response @@ ("content" :> entry.content)
        ELSE response]

GetContextBegin(projectId, id, includeFull) ==
  IF projectId = "" \/ id = ""
  THEN /\ last' = [op |-> "get_context", isError |-> TRUE, found |-> FALSE,
                   error |-> "validation", id |-> id, projectId |-> projectId]
       /\ UNCHANGED <<tables, projects, log_entries, entry_tags, pending, calls, searches>>
  ELSE LET entry == getEntry(projectId, id) IN
       IF ~entry.found
       THEN /\ last' = [op |-> "get_context", isError |-> TRUE, found |-> FALSE,
                        error |-> "Entry not found", id |-> id,
                        projectId |-> projectId]
            /\ UNCHANGED <<tables, projects, log_entries, entry_tags, pending, calls, searches>>
       ELSE /\ IF needsSummary(entry)
               THEN /\ TotalCalls < MaxCalls
                    /\ pending' = Append(pending, [entry |-> entry,
                                                   includeFull |-> includeFull])
                    /\ calls' = [calls EXCEPT ![id].total = @ + 1]
                    /\ UNCHANGED last
               ELSE /\ last' = contextResponse(entry, entry.summary, includeFull,
                                               FALSE, FALSE)
                    /\ UNCHANGED <<pending, calls>>
            /\ UNCHANGED <<tables, projects, log_entries, entry_tags, searches>>

\* the k-th awaiting call resumes with the summariser's result (a rejection
\* is thrown at the await and ends in the handler's outer catch); throws says
\* whether store.updateSummary throws
GetContextEnd(k, result, throws) ==
  /\ k \in 1..Len(pending)
  /\ LET call == pending[k]
         entry == call.entry
     IN /\ result \in summarise(entry.title, entry.content)
        /\ IF result.rejected
           THEN /\ last' = [op |-> "get_context", isError |-> TRUE,
                            found |-> FALSE, error |-> "Unexpected error",
                            id |-> entry.id, projectId |-> entry.projectId]
                /\ UNCHANGED <<log_entries, calls>>
           ELSE /\ log_entries' = IF summaryWritten(result, throws)
                                  THEN updateSummary(entry.id, result.summary)
                                  ELSE log_entries
                /\ calls' = IF result.isFallback THEN calls
                            ELSE [calls EXCEPT ![entry.id].genuine = @ + 1]
                /\ last' = contextResponse(entry, result.summary,
                                           call.includeFull, TRUE,
                                           result.isFallback)
        /\ pending' = [i \in 1..(Len(pending) - 1) |->
                         IF i < k THEN pending[i] ELSE pending[i + 1]]
  /\ UNCHANGED <<tables, projects, entry_tags, searches>>

\* every result a summariser can produce for some stored content
SummariseResults ==
  UNION {summarise(in.title, in.content) : in \in EntryInputs}

(***************************************************************************)
(* search_logs.                                                            *)
(***************************************************************************)
Queries == {Null, <<"a">>, <<"_">>}
TagFilters == {NoTags, <<TagA>>, <<TagB, TagA>>}
StartDates == {Null, T2}
EndDates == {Null, T1}
Limits == {NoLimit, 1, 0}

SearchArgs ==
  [projectId : ProjectIds, query : Queries, tags : TagFilters,
   startDate : StartDates, endDate : EndDates, limit : Limits]

\* limit: z.number().int().min(1).max(100).default(20)
validLimit(limit) == limit = NoLimit \/ (limit >= MIN_LIMIT /\ limit <= MAX_LIMIT)

validatedLimit(limit) == IF limit = NoLimit THEN DEFAULT_LIMIT ELSE limit

SearchLogs(args) ==
  /\ searches < MaxSearches
  /\ searches' = searches + 1
  /\ IF args.projectId = "" \/ ~validLimit(args.limit)
     THEN last' = [op |-> "search_logs", args |-> args, isError |-> TRUE,
                   error |-> "validation"]
     ELSE IF ~projectExists(args.projectId)
     THEN last' = [op |-> "search_logs", args |-> args, isError |-> TRUE,
                   error |-> "Project not found", projectId |-> args.projectId]
     ELSE \E result \in searchEntries([args EXCEPT !.limit = validatedLimit(@)]) :
            last' = [op |-> "search_logs", args |-> args, isError |-> FALSE,
                     text |-> IF result.total > 0 THEN "Found"
                              ELSE "No entries found",
                     entries |-> result.entries, total |-> result.total]
  /\ UNCHANGED <<tables, projects, log_entries, entry_tags, pending, calls>>

(***************************************************************************)
(* Specifications.                                                         *)
(***************************************************************************)
\* no handler is suspended: tool calls arrive one after the other
Idle == pending = <<>>

\* the store and get_context, one call at a time
Next ==
  \/ Idle /\ \E p \in ProjectIds : EnsureProject(p, T1)
  \/ Idle /\ \E c \in Creations, i \in SuppliedIds : CreateEntry(c[1], i, c[2])
  \/ Idle /\ \E p \in ProjectIds, i \in EntryIds \cup {""}, f \in BOOLEAN :
               GetContextBegin(p, i, f)
  \/ \E k \in 1..Len(pending), r \in SummariseResults : GetContextEnd(k, r, FALSE)

Spec == Init /\ [][Next]_vars

\* the store and search_logs
SearchNext ==
  \/ \E p \in ProjectIds : EnsureProject(p, T1)
  \/ \E c \in Creations, i \in SuppliedIds : CreateEntry(c[1], i, c[2])
  \/ \E args \in SearchArgs : SearchLogs(args)

SearchSpec == Init /\ [][SearchNext]_vars

\* contents around the fallback bound: n characters, the i-th being the last
\* digit of i
contentOf(n) == <<>> \o [i \in 1..n |-> ToString(i % 10)]

ContentLengths ==
  {1, FALLBACK_MAX_LENGTH - 1, FALLBACK_MAX_LENGTH, FALLBACK_MAX_LENGTH + 1,
   2 * FALLBACK_MAX_LENGTH}

\* a store holding one entry, its content of one of these lengths
SummariserInit ==
  /\ tables = {"projects", "log_entries", "entry_tags"}
  /\ projects = ("p1" :> [name |-> "p1", created_at |-> T1])
  /\ \E n \in ContentLengths :
       log_entries =
         ("entry0000001" :>
            newRow("p1", [title |-> TitleC, content |-> contentOf(n),
                          createdAt |-> T1, tags |-> <<>>, agentId |-> Null]))
  /\ entry_tags = {}
  /\ pending = <<>>
  /\ calls = [id \in EntryIds |-> NoCalls]
  /\ searches = 0
  /\ last = [op |-> "open"]

\* every result the summariser can produce for one of these contents
ContentSummaries ==
  UNION {summarise(TitleC, contentOf(n)) : n \in ContentLengths}

\* get_context called on the entry, the summariser asked each time no
\* summary is stored
SummariserNext ==
  \/ Idle /\ \E f \in BOOLEAN : GetContextBegin("p1", "entry0000001", f)
  \/ \E k \in 1..Len(pending), r \in ContentSummaries : GetContextEnd(k, r, FALSE)

SummariserSpec == SummariserInit /\ [][SummariserNext]_vars

\* get_context = a call begins; summariser = a call resumes, the summariser
\* falling back on fewer than MaxCalls calls
LiveBegin ==
  Idle /\ \E f \in BOOLEAN : GetContextBegin("p1", "entry0000001", f)

LiveEnd ==
  \E k \in 1..Len(pending), r \in ContentSummaries :
    /\ r.isFallback => TotalCalls < MaxCalls
    /\ GetContextEnd(k, r, FALSE)

LiveNext == LiveBegin \/ LiveEnd

\* get_context keeps being called on the entry and the summariser keeps
\* answering, the last time at the latest with a genuine result
LiveSpec ==
  SummariserInit /\ [][LiveNext]_vars /\ WF_vars(LiveBegin) /\ WF_vars(LiveEnd)

\* the identifiers createEntry is called with: SuppliedIds and one of 13
\* characters
StoreIds == SuppliedIds \cup {"entry00000013"}

\* the entries createEntry is called with
StoreCreations == {<<InputBA, "p1">>, <<InputNone, "p2">>}

\* the store, called directly and through log_progress, the clock varying
\* (a call with invalid arguments returns before it reads the clock)
StoreNext ==
  \/ \E p \in ProjectIds, t \in Times : EnsureProject(p, t)
  \/ \E c \in StoreCreations, i \in StoreIds : CreateEntry(c[1], i, c[2])
  \/ \E args \in ValidArgs, t \in Times, u \in Times :
       StrLeq(t, u) /\ LogProgress(args, t, u)
  \/ \E args \in InvalidArgs : LogProgress(args, T1, T1)

StoreSpec == Init /\ [][StoreNext]_vars

\* the store and get_context, calls overlapping: a call may begin and others
\* may resume while calls await the summariser
ConcurrentNext ==
  \/ \E p \in ProjectIds : EnsureProject(p, T1)
  \/ \E c \in StoreCreations, i \in SuppliedIds : CreateEntry(c[1], i, c[2])
  \/ \E p \in ProjectIds, i \in EntryIds \cup {""}, f \in BOOLEAN :
       GetContextBegin(p, i, f)
  \/ \E k \in 1..Len(pending), r \in SummariseResults : GetContextEnd(k, r, FALSE)

ConcurrentSpec == Init /\ [][ConcurrentNext]_vars

\* the store and get_context, one call at a time, store.updateSummary
\* throwing or not
FailingCacheNext ==
  \/ Idle /\ \E p \in ProjectIds : EnsureProject(p, T1)
  \/ Idle /\ \E c \in StoreCreations, i \in SuppliedIds :
               CreateEntry(c[1], i, c[2])
  \/ Idle /\ \E p \in ProjectIds, i \in EntryIds \cup {""}, f \in BOOLEAN :
               GetContextBegin(p, i, f)
  \/ \E k \in 1..Len(pending), r \in SummariseResults, throws \in BOOLEAN :
       GetContextEnd(k, r, throws)

FailingCacheSpec == Init /\ [][FailingCacheNext]_vars

\* a store has been constructed on the database
Opened == last.op # "none"

\* a store opened on a database of an earlier version, then used
LegacyNext ==
  \/ Constructor
  \/ Opened /\ \E p \in ProjectIds : EnsureProject(p, T1)
  \/ Opened /\ \E c \in Creations, i \in SuppliedIds : CreateEntry(c[1], i, c[2])

LegacySpec == LegacyInit /\ [][LegacyNext]_vars

(***************************************************************************)
(* What the claims speak of.                                               *)
(***************************************************************************)
\* the tag set of a stored entry, read from its inline JSON list
inlineTags(id) == Range(JsonParse(log_entries[id].tags))

\* the latest operation is a search_logs call that returned a result
Searched == last.op = "search_logs" /\ ~last.isError

\* the entry matches every filter the search supplied: project, title
\* containing the query (case-insensitively), all requested tags, date bounds
matchesAll(id, args) ==
  LET row == log_entries[id] IN
  /\ row.project_id = args.projectId
  /\ given(args.query) => Contains(Lower(row.title), Lower(args.query))
  /\ hasTags(args) => Range(args.tags) \subseteq inlineTags(id)
  /\ given(args.startDate) => StrLeq(args.startDate, row.created_at)
  /\ given(args.endDate) => StrLeq(row.created_at, args.endDate)

\* M: how many entries match every supplied filter
matchCount(args) == Cardinality({id \in DOMAIN log_entries : matchesAll(id, args)})

\* the ids of the entries the latest search returned
returnedIds == {last.entries[i].id : i \in 1..Len(last.entries)}

\* the latest operation is a get_context call that found its entry
GotContext == last.op = "get_context" /\ last.found

(***************************************************************************)
(* Claims.                                                                 *)
(***************************************************************************)
\* C1: an entry's genuine summary is computed once and stored: at most one
\* genuine summariser result is ever obtained per entry, the summary is
\* stored exactly when one was obtained, no call awaits the summariser for an
\* entry that has a stored summary, a call that got a genuine result leaves
\* it stored, and a call that read a stored summary returns it without
\* invoking the summariser.
C1_CacheOnce ==
  /\ \A id \in DOMAIN log_entries :
       /\ calls[id].genuine <= 1
       /\ Idle => (log_entries[id].summary = Null <=> calls[id].genuine = 0)
  /\ \A k \in 1..Len(pending) :
       log_entries[pending[k].entry.id].summary = Null
  /\ GotContext =>
       /\ (last.invoked /\ ~last.isFallback) =>
            /\ log_entries[last.id].summary = last.text
            /\ last.structuredContent.summary = last.text
       /\ last.storedBefore # Null =>
            /\ ~last.invoked
            /\ last.text = last.storedBefore
            /\ last.structuredContent.summary = last.storedBefore
            /\ log_entries[last.id].summary = last.storedBefore

\* C1 witness: a second get_context on an entry was answered from the stored
\* summary after exactly one (genuine) summarise invocation
C1_Witness ==
  /\ GotContext
  /\ ~last.invoked
  /\ calls[last.id] = [total |-> 1, genuine |-> 1]

\* C2: while the summariser has only ever fallen back for an entry, its
\* stored summary is null, and every get_context call on it invoked the
\* summariser, returned the fallback text and left the stored summary null.
C2_FallbackNotCached ==
  /\ \A id \in DOMAIN log_entries :
       calls[id].genuine = 0 => log_entries[id].summary = Null
  /\ (GotContext /\ calls[last.id].genuine = 0) =>
       /\ last.invoked
       /\ last.isFallback
       /\ last.text = fallback(log_entries[last.id].content)
       /\ last.structuredContent.summary = last.text
       /\ log_entries[last.id].summary = Null

\* C2 witness: two get_context calls on one entry each invoked the
\* summariser and each got the fallback
C2_Witness ==
  /\ GotContext
  /\ last.isFallback
  /\ calls[last.id] = [total |-> MaxCalls, genuine |-> 0]
  /\ Idle

\* C3: a search by tags alone returns an entry of the project exactly when
\* the entry carries every requested tag.
C3_TagSearchIffSubset ==
  (/\ Searched
   /\ hasTags(last.args)
   /\ ~given(last.args.query)
   /\ ~given(last.args.startDate)
   /\ ~given(last.args.endDate)
   /\ last.args.limit = NoLimit) =>
    \A id \in DOMAIN log_entries :
      log_entries[id].project_id = last.args.projectId =>
        (id \in returnedIds <=> Range(last.args.tags) \subseteq inlineTags(id))

\* C4: when tags are combined with a query or date bounds, every returned
\* entry carries every requested tag, has the query in its title and lies
\* within the date bounds.
C4_CombinedFilters ==
  (/\ Searched
   /\ hasTags(last.args)
   /\ (given(last.args.query) \/ given(last.args.startDate)
         \/ given(last.args.endDate))) =>
    \A i \in 1..Len(last.entries) :
      LET e == last.entries[i] IN
      /\ Range(last.args.tags) \subseteq Range(e.tags)
      /\ given(last.args.query) =>
           Contains(Lower(e.title), Lower(last.args.query))
      /\ given(last.args.startDate) => StrLeq(last.args.startDate, e.createdAt)
      /\ given(last.args.endDate) => StrLeq(e.createdAt, last.args.endDate)

\* C5: a successful search returns exactly min(M, limit) entries, limit being
\* 20 when omitted.
C5_ReturnsMinOfMatchesAndLimit ==
  Searched =>
    Len(last.entries) = Min(matchCount(last.args), validatedLimit(last.args.limit))

\* C6: total is the number of entries matching every supplied filter.
C6_TotalIsMatchCount ==
  Searched => last.total = matchCount(last.args)

\* C7: a returned entry exposes id, projectId, title, createdAt and tags, and
\* neither content nor summary.
C7_NoContentOrSummary ==
  Searched =>
    \A i \in 1..Len(last.entries) :
      /\ DOMAIN last.entries[i] \subseteq {"id", "projectId", "title", "createdAt", "tags"}
      /\ "content" \notin DOMAIN last.entries[i]
      /\ "summary" \notin DOMAIN last.entries[i]

\* C8: a valid search of a project with no row is the error 'Project not
\* found: <id>'; a valid search of an existing project that no entry matches
\* is a success with no entries and total 0.
C8_NotFoundVersusEmpty ==
  (last.op = "search_logs" /\ validLimit(last.args.limit)) =>
    /\ ~projectExists(last.args.projectId) =>
         /\ last.isError
         /\ last.error = "Project not found"
         /\ last.projectId = last.args.projectId
    /\ (projectExists(last.args.projectId) /\ matchCount(last.args) = 0) =>
         /\ ~last.isError
         /\ last.entries = <<>>
         /\ last.total = 0

\* a step of the get_context handler
GetContextStep ==
  \/ \E p \in ProjectIds, i \in EntryIds \cup {""}, f \in BOOLEAN :
       GetContextBegin(p, i, f)
  \/ \E k \in 1..Len(pending), r \in SummariseResults : GetContextEnd(k, r, FALSE)

\* C9: a get_context step leaves the project rows, the tag index and the set
\* of entries as they are, and changes no stored entry except that the
\* summary of the entry it was called on may go from null to a non-null value.
C9_GetContextFrame ==
  [][GetContextStep =>
       /\ projects' = projects
       /\ entry_tags' = entry_tags
       /\ DOMAIN log_entries' = DOMAIN log_entries
       /\ \A id \in DOMAIN log_entries :
            \/ log_entries'[id] = log_entries[id]
            \/ /\ log_entries'[id] =
                    [log_entries[id] EXCEPT !.summary = log_entries'[id].summary]
               /\ log_entries[id].summary = Null
               /\ log_entries'[id].summary # Null
               /\ last'.op = "get_context" /\ last'.found /\ last'.id = id]_vars

\* C9 witness: get_context has stored a summary for one of two entries, the
\* tag index being non-empty
C9_Witness ==
  /\ GotContext
  /\ last.invoked
  /\ log_entries[last.id].summary # Null
  /\ \E id \in DOMAIN log_entries : id # last.id /\ log_entries[id].summary = Null
  /\ entry_tags # {}

\* C10: for every entry the tags held in entry_tags for its id are the tags
\* of its inline JSON list (none when the list is empty), and entry_tags
\* holds rows for stored entries only.
C10_TagIndexMatchesInline ==
  /\ \A id \in DOMAIN log_entries :
       /\ tagSet(id) = inlineTags(id)
       /\ JsonParse(log_entries[id].tags) = <<>> => tagSet(id) = {}
  /\ \A r \in entry_tags : r[1] \in DOMAIN log_entries

\* C10 witness: a createEntry has just failed on a duplicate id, and the
\* store holds an entry with two distinct tags and one with none
C10_Witness ==
  /\ last.op = "createEntry"
  /\ ~last.ok
  /\ last.error = "Entry with ID already exists"
  /\ \E id \in DOMAIN log_entries : Cardinality(tagSet(id)) = 2
  /\ \E id \in DOMAIN log_entries : log_entries[id].tags = JsonStringify(<<>>)

\* C11: once the constructor has run on a database that had no entry_tags
\* table, entry_tags holds, for every entry, exactly one row per distinct tag
\* of the entry's inline list.
C11_BackfillOnOpen ==
  (last.op = "open" /\ last.legacy) =>
    \A id \in DOMAIN log_entries : tagSet(id) = inlineTags(id)

\* C12: every stored entry's project is a row of projects; a log_progress
\* call for a project that has no row creates the row and stores its entry
\* under it; a createEntry call for a project that has no row stores nothing.
C12_EntriesReferenceProjects ==
  /\ [](\A id \in DOMAIN log_entries :
          log_entries[id].project_id \in DOMAIN projects)
  /\ [][/\ \A args \in ValidArgs, t \in Times, u \in Times :
            (LogProgress(args, t, u) /\ args.projectId \notin DOMAIN projects) =>
              /\ args.projectId \in DOMAIN projects'
              /\ \E id \in DOMAIN log_entries' \ DOMAIN log_entries :
                   log_entries'[id].project_id = args.projectId
        /\ \A c \in StoreCreations, i \in StoreIds :
            (CreateEntry(c[1], i, c[2]) /\ c[2] \notin DOMAIN projects) =>
              /\ ~last'.ok
              /\ log_entries' = log_entries
              /\ entry_tags' = entry_tags]_vars

\* C12 witness: createEntry has just been refused for a project without a
\* row, while the other project holds an entry logged by log_progress
C12_Witness ==
  /\ last.op = "createEntry"
  /\ ~last.ok
  /\ last.error = "Failed to create entry: FOREIGN KEY constraint failed"
  /\ last.projectId \notin DOMAIN projects
  /\ \E id \in DOMAIN log_entries :
       /\ log_entries[id].project_id = "p2"
       /\ log_entries[id].title = TitleC

\* C13: createEntry called with a 12-character id that is already stored,
\* under whichever project, fails with 'Entry with ID already exists' and
\* changes no project, entry or tag row.
C13_DuplicateIdRejected ==
  [][\A c \in StoreCreations, i \in StoreIds :
       (/\ CreateEntry(c[1], i, c[2])
        /\ i # "" /\ Len(i) = ID_LENGTH
        /\ i \in DOMAIN log_entries) =>
         /\ ~last'.ok
         /\ last'.error = "Entry with ID already exists"
         /\ projects' = projects
         /\ log_entries' = log_entries
         /\ entry_tags' = entry_tags]_vars

\* C13 witness: a createEntry under one project has just been refused
\* because its id is that of an entry of the other project
C13_Witness ==
  /\ last.op = "createEntry"
  /\ ~last.ok
  /\ last.error = "Entry with ID already exists"
  /\ last.entryId \in DOMAIN log_entries
  /\ log_entries[last.entryId].project_id # last.projectId

\* C17: ensureProject never fails; a call for a project that has a row
\* changes nothing, a call for a new project adds one row named after the
\* project and dated at the call; no later step, ensureProject or
\* log_progress included, changes or removes a project row.
C17_EnsureProjectIdempotent ==
  [][/\ \A p \in DOMAIN projects :
         p \in DOMAIN projects' /\ projects'[p] = projects[p]
     /\ \A p \in ProjectIds, t \in Times :
         EnsureProject(p, t) =>
           /\ last'.ok
           /\ DOMAIN projects' = DOMAIN projects \cup {p}
           /\ p \notin DOMAIN projects =>
                projects'[p] = [name |-> p, created_at |-> t]
     /\ \A args \in ValidArgs, t \in Times, u \in Times :
         LogProgress(args, t, u) =>
           /\ DOMAIN projects' = DOMAIN projects \cup {args.projectId}
           /\ args.projectId \notin DOMAIN projects =>
                projects'[args.projectId] =
                  [name |-> args.projectId, created_at |-> t]]_vars

\* C17 witness: ensureProject has just been called at time 2 for a project
\* whose row dates from time 1, and the row still carries time 1
C17_Witness ==
  /\ last.op = "ensureProject"
  /\ last.now = T2
  /\ last.projectId \in DOMAIN projects
  /\ projects[last.projectId] = [name |-> last.projectId, created_at |-> T1]

\* C18: every stored id has 12 characters; a successful createEntry returns
\* the id it stored the entry under, which is the caller's id when that has
\* 12 characters and a generated one, different from the caller's,
\* otherwise.
C18_IdsHaveTwelveCharacters ==
  /\ [](\A id \in DOMAIN log_entries : Len(id) = ID_LENGTH)
  /\ [][\A c \in StoreCreations, i \in StoreIds :
          (CreateEntry(c[1], i, c[2]) /\ last'.ok) =>
            LET id == last'.entry.id IN
            /\ Len(id) = ID_LENGTH
            /\ DOMAIN log_entries' = DOMAIN log_entries \cup {id}
            /\ id \notin DOMAIN log_entries
            /\ (i # "" /\ Len(i) = ID_LENGTH) => id = i
            /\ (i = "" \/ Len(i) # ID_LENGTH) => (id # i /\ id \in NanoIds)]_vars

\* C18 witness: createEntry has just stored an entry under a generated id,
\* next to an entry stored under the id its caller supplied
C18_Witness ==
  /\ last.op = "createEntry"
  /\ last.ok
  /\ last.entry.id \in NanoIds
  /\ "entry0000001" \in DOMAIN log_entries

\* the arguments break the input schema the way C19 lists: projectId, title
\* or content missing or empty, a title of more than 100 characters, a
\* content of more than 10000, more than 10 tags, a tag of more than 50
schemaViolating(args) ==
  \/ \E f \in {"projectId", "title", "content"} :
       f \notin DOMAIN args \/ Len(args[f]) = 0
  \/ Len(args.title) > TITLE_MAX
  \/ Len(args.content) > CONTENT_MAX
  \/ "tags" \in DOMAIN args /\
       (\/ Len(args.tags) > TAGS_MAX
        \/ \E k \in 1..Len(args.tags) : Len(args.tags[k]) > TAG_MAX)

\* C19: a log_progress call whose arguments break the input schema returns
\* an error and changes no project, entry or tag row.
C19_InvalidInputStoresNothing ==
  [][\A args \in LogArgs :
       (schemaViolating(args) /\ LogProgress(args, T1, T1)) =>
         /\ last'.isError
         /\ projects' = projects
         /\ log_entries' = log_entries
         /\ entry_tags' = entry_tags]_vars

\* C19 witness: log_progress has just refused a title of 101 characters, the
\* store holding an entry and no row for the call's project
C19_Witness ==
  /\ last.op = "log_progress"
  /\ last.isError
  /\ last.text = "title title must be at most 100 characters"
  /\ log_entries # <<>>
  /\ "p1" \notin DOMAIN projects

\* C14: the entries of a search result, with or without a tags filter, come
\* newest first: no entry is followed by one with a greater createdAt.
C14_NewestFirst ==
  Searched =>
    \A i \in 1..(Len(last.entries) - 1) :
      StrLeq(last.entries[i + 1].createdAt, last.entries[i].createdAt)

\* C14 witness: a search by tag has returned two entries of different
\* createdAt
C14_Witness ==
  /\ Searched
  /\ hasTags(last.args)
  /\ Len(last.entries) = 2
  /\ last.entries[1].createdAt # last.entries[2].createdAt

\* C15: whatever the LLM request ends in, summarise resolves; when a
\* get_context call on a stored entry resumes from the summariser it returns
\* a success whose summary is a non-null string, and when the request timed
\* out, failed or answered with the empty text that summary is the fallback,
\* marked isFallback.
C15_SummariserFailureAbsorbed ==
  [][\A k \in 1..Len(pending), r \in SummariseResults :
       GetContextEnd(k, r, FALSE) =>
         /\ ~r.rejected
         /\ ~last'.isError
         /\ last'.text # Null
         /\ last'.structuredContent.summary = last'.text
         /\ r.isFallback =>
              /\ last'.isFallback
              /\ last'.text = fallback(pending[k].entry.content)]_vars

\* C15 witness: get_context, asked for the full content of an entry longer
\* than the fallback bound, has returned the fallback
C15_Witness ==
  /\ GotContext
  /\ ~last.isError
  /\ last.invoked
  /\ last.isFallback
  /\ "content" \in DOMAIN last.structuredContent
  /\ Len(last.structuredContent.content) > Len(last.text)

\* C16: get_context for a (projectId, id) pair that no entry has, the id
\* being unknown or that of an entry of another project, returns 'Entry not
\* found', asks the summariser nothing and changes no state.
C16_NotFoundChangesNothing ==
  [][\A p \in ProjectIds, i \in EntryIds, f \in BOOLEAN :
       (/\ ~(i \in DOMAIN log_entries /\ log_entries[i].project_id = p)
        /\ GetContextBegin(p, i, f)) =>
         /\ last'.op = "get_context"
         /\ last'.isError
         /\ last'.error = "Entry not found"
         /\ last'.id = i /\ last'.projectId = p
         /\ pending' = pending
         /\ calls' = calls
         /\ projects' = projects
         /\ log_entries' = log_entries
         /\ entry_tags' = entry_tags]_vars

\* C16 witness: get_context has just answered 'Entry not found' for an id
\* stored under another project
C16_Witness ==
  /\ last.op = "get_context"
  /\ last.isError
  /\ last.error = "Entry not found"
  /\ last.id \in DOMAIN log_entries
  /\ log_entries[last.id].project_id # last.projectId

C21_FallbackEllipsis ==
  (GotContext /\ last.invoked /\ last.isFallback) =>
    LET content == log_entries[last.id].content IN
    Len(content) > 300 =>
      last.text = SubSeq(content, 1, 300) \o <<".", ".", ".">>

\* C22: however get_context calls overlap and whatever the summariser
\* returns to each, an entry's stored summary is null or a non-empty text
\* the summariser can return for the entry's title and content with
\* isFallback false; the fallback text and the empty text are never stored.
C22_OnlyGenuineStored ==
  \A id \in DOMAIN log_entries :
    LET row == log_entries[id] IN
    \/ row.summary = Null
    \/ /\ row.summary # <<>>
       /\ row.summary # fallback(row.content)
       /\ \E r \in summarise(row.title, row.content) :
            ~r.isFallback /\ r.summary = row.summary

\* C22 witness: a call that read a null summary has returned the fallback
\* while an overlapping call on the same entry has stored a genuine summary
C22_Witness ==
  /\ GotContext
  /\ last.invoked
  /\ last.isFallback
  /\ last.storedBefore = Null
  /\ log_entries[last.id].summary # Null

\* C23: no step changes a stored summary that is not null, overlapping
\* get_context calls that both received a genuine result included.
C23_GenuineNeverOverwritten ==
  [][\A id \in DOMAIN log_entries :
       log_entries[id].summary # Null =>
         log_entries'[id].summary = log_entries[id].summary]_vars

\* C24: when a call that read a null summary resumes with a genuine result
\* and store.updateSummary throws, the call returns a success carrying that
\* summary and the stored summary stays null; a get_context call on an entry
\* whose stored summary is null asks the summariser.
C24_CacheFailureAbsorbed ==
  [][/\ \A k \in 1..Len(pending), r \in SummariseResults :
          (~r.isFallback /\ GetContextEnd(k, r, TRUE)) =>
            /\ last'.op = "get_context"
            /\ ~last'.isError
            /\ last'.invoked
            /\ last'.text = r.summary
            /\ last'.structuredContent.summary = r.summary
            /\ log_entries' = log_entries
            /\ log_entries'[pending[k].entry.id].summary = Null
     /\ \A p \in ProjectIds, i \in EntryIds, f \in BOOLEAN :
          (/\ i \in DOMAIN log_entries
           /\ log_entries[i].project_id = p
           /\ log_entries[i].summary = Null
           /\ GetContextBegin(p, i, f)) =>
            /\ Len(pending') = Len(pending) + 1
            /\ pending'[Len(pending')].entry.id = i
            /\ calls'[i].total = calls[i].total + 1]_vars

\* C24 witness: the second call on an entry has asked the summariser again
\* and returned a genuine summary, the stored summary being null still
C24_Witness ==
  /\ GotContext
  /\ last.invoked
  /\ ~last.isFallback
  /\ Idle
  /\ log_entries[last.id].summary = Null
  /\ calls[last.id] = [total |-> 2, genuine |-> 2]

\* C25: on an entry that get_context keeps being called on, the summariser
\* falling back on the first calls and then answering, the first genuine
\* result is stored; from then on the stored summary does not change and no
\* call asks the summariser; the summary is eventually non-null for good.
C25_EventuallyCached ==
  /\ <>[](log_entries["entry0000001"].summary # Null)
  /\ [][/\ \A k \in 1..Len(pending), r \in ContentSummaries :
            (~r.isFallback /\ GetContextEnd(k, r, FALSE)) =>
              log_entries'["entry0000001"].summary = r.summary
        /\ log_entries["entry0000001"].summary # Null =>
             /\ log_entries'["entry0000001"].summary =
                  log_entries["entry0000001"].summary
             /\ pending' = <<>>
             /\ calls' = calls]_vars

\* C25 witness: the summariser fell back on every call but the last one
\* allowed, answered that one, and the answer is stored
C25_Witness ==
  /\ calls["entry0000001"] = [total |-> MaxCalls, genuine |-> 1]
  /\ log_entries["entry0000001"].summary # Null
  /\ GotContext
  /\ ~last.invoked

\* C26: in a search without tags, an entry of the project passes the date
\* filters exactly when startDate <= createdAt <= endDate as strings, an
\* absent bound not constraining; an entry dated at a bound is returned.
C26_InclusiveDateBounds ==
  (/\ Searched
   /\ ~hasTags(last.args)
   /\ ~given(last.args.query)
   /\ last.args.limit = NoLimit) =>
    \A id \in DOMAIN log_entries :
      log_entries[id].project_id = last.args.projectId =>
        (id \in returnedIds <=>
           /\ given(last.args.startDate) =>
                StrLeq(last.args.startDate, log_entries[id].created_at)
           /\ given(last.args.endDate) =>
                StrLeq(log_entries[id].created_at, last.args.endDate))

\* C26 witness: a search from time 2 on has returned the entry dated at time
\* 2 and left out one dated at time 1
C26_Witness ==
  /\ Searched
  /\ ~hasTags(last.args)
  /\ last.args.startDate = T2
  /\ last.args.endDate = Null
  /\ Len(last.entries) = 1
  /\ last.entries[1].createdAt = T2
  /\ \E id \in DOMAIN log_entries :
       /\ log_entries[id].project_id = last.args.projectId
       /\ log_entries[id].created_at = T1

\* C27: in a search without tags, an entry of the project matches a
\* non-empty query exactly when its title contains the query text, letter
\* case ignored, the query being any text, '%' and '_' included.
C27_QueryIsSubstring ==
  (/\ Searched
   /\ ~hasTags(last.args)
   /\ given(last.args.query)
   /\ ~given(last.args.startDate)
   /\ ~given(last.args.endDate)
   /\ last.args.limit = NoLimit) =>
    \A id \in DOMAIN log_entries :
      log_entries[id].project_id = last.args.projectId =>
        (id \in returnedIds <=>
           Contains(Lower(log_entries[id].title), Lower(last.args.query)))

\* C28: a search result holds at most total entries; total is 0 only when
\* the entries list is empty, so 'No entries found' never comes with entries.
C28_EntriesAtMostTotal ==
  Searched =>
    /\ Len(last.entries) <= last.total
    /\ last.total = 0 => last.entries = <<>>
    /\ last.text = "No entries found" => last.entries = <<>>

\* C29: once the store is open, the tag set a search reports for a stored
\* entry (getTags, read from entry_tags) is the tag set get_context reports
\* for it (getEntry, read from the inline JSON list).
C29_SearchAndContextTagsAgree ==
  Opened =>
    \A id \in DOMAIN log_entries :
      Range(projectedEntry(id).tags) =
        Range(getEntry(log_entries[id].project_id, id).tags)

\* C30: every entry a search of a project returns, with or without tags and
\* whatever the other filters, is stored under that project.
C30_ProjectIsolation ==
  Searched =>
    \A i \in 1..Len(last.entries) :
      /\ last.entries[i].projectId = last.args.projectId
      /\ log_entries[last.entries[i].id].project_id = last.args.projectId

\* C30 witness: a search by tag of one project has returned an entry while
\* the other project holds an entry carrying the requested tags
C30_Witness ==
  /\ Searched
  /\ hasTags(last.args)
  /\ Len(last.entries) > 0
  /\ \E id \in DOMAIN log_entries :
       /\ log_entries[id].project_id # last.args.projectId
       /\ Range(last.args.tags) \subseteq tagSet(id)

====
